---- MODULE Spec2Model ----
(***************************************************************************)
(* A model of the stream segmenter and the similarity search of the        *)
(* Multi-Agent_Similarity repository:                                      *)
(*   src/Football/generate_play_datasets.py  batch corpus builder          *)
(*   src/Football/main.py                    upload segmenter + matcher    *)
(*   src/server.py                           melody matcher                *)
(* Python values are encoded as follows: an optional number is a sequence  *)
(* (<<>> is None / a missing key, <<v>> is the value v); the identifier    *)
(* None is the string "None"; a JSON object that may be null or missing    *)
(* carries a "shape" field.                                                *)
(***************************************************************************)
EXTENDS Integers, Sequences, FiniteSets, TLC

VARIABLES
    entry,              \* which segmenter is running: "batch" or "upload"
    events,             \* the event list of the run (json.load / json.loads)
    pc,                 \* position of the run: sort, loop, flush, returned, raised
    i,                  \* index of the next event of the for loop
    current_team_id,
    current_sequence,
    current_metadata,
    last_event_time,
    plays,              \* file_plays (batch) / extracted_plays (upload)
    current_src,        \* history: loop index of each point of current_sequence
    plays_src,          \* history: loop indices of the points of each emitted play
    dropped,            \* history: loop indices of the points of discarded chains
    parse_error,        \* upload only: the outer except ran ("Parsing Error")
    main_pc,            \* generate_play_datasets.main: "files", "saved", "crashed"
    files_read,         \* number of input files main has segmented
    play_buckets,       \* main's play_buckets: length -> list of plays
    disk,               \* processed_datasets: length of dataset_length_<n>.json -> plays
    server_pc,          \* the match server: "down", "up"
    PLAY_DATABASE,      \* the server's global: length -> list of plays
    response,           \* what the last analyze_match call returned
    deployment,         \* the service a behaviour runs: "football", "melody",
                        \* "streamlit"
    fastdtw_build,      \* the fastdtw the matchers import: "python" (fastdtw.py)
                        \* or "compiled" (_fastdtw.pyx)
    songs_read,         \* processor.process_songs: number of song files read
    database,           \* process_songs' database: the (file, melody) items in order
    melody_file,        \* melody_database.json: [exists, content]
    hum_pc,             \* the melody server: "down", "up"
    DATABASE,           \* the melody server's global, as its items in order
    hum_response,       \* what the last recognize_hum call returned
    app_pc,             \* the Streamlit script: "down", "stopped", "ready"
    session_database,   \* st.session_state.database: <<>> is None, else <<items>>
    session_results,    \* st.session_state.query_seq and .results: <<>> is None
    app_error,          \* the message of the st.error of the last recognition
    app_hum,            \* history: the voiced frames of the last hum
    app_windows         \* history: per song of the database, the <<start, length>>
                        \* of every window the last recognition gave to fastdtw

segvars == <<entry, events, pc, i, current_team_id, current_sequence,
             current_metadata, last_event_time, plays, current_src, plays_src,
             dropped, parse_error>>

matchvars == <<main_pc, files_read, play_buckets, disk, server_pc, PLAY_DATABASE,
               response>>

humvars == <<songs_read, database, melody_file, hum_pc, DATABASE, hum_response>>

appvars == <<app_pc, session_database, session_results, app_error, app_hum,
             app_windows>>

envvars == <<deployment, fastdtw_build>>

vars == <<segvars, matchvars, envvars, humvars, appvars>>

-----------------------------------------------------------------------------
(* Generic helpers *)

None == "None"

Min(a, b) == IF a <= b THEN a ELSE b

Max(a, b) == IF a >= b THEN a ELSE b

Range(s) == {s[k] : k \in DOMAIN s}

\* the sequence s, held as an explicit tuple
Tuple(s) == s \o <<>>

RECURSIVE SeqsUpTo(_, _)
SeqsUpTo(S, n) ==
    IF n = 0 THEN {<<>>}
    ELSE LET shorter == SeqsUpTo(S, n - 1)
         IN shorter \cup {Append(s, e) : s \in {t \in shorter : Len(t) = n - 1}, e \in S}

-----------------------------------------------------------------------------
(* Events as the JSON gives them *)

GameObj(team, pid, type) ==
    [shape |-> "object", teamId |-> team, playerId |-> pid, gameEventType |-> type]

GameNull ==
    [shape |-> "null", teamId |-> None, playerId |-> 0, gameEventType |-> <<>>]

PossObj(type) == [shape |-> "object", possessionEventType |-> type]

PossMissing == [shape |-> "missing", possessionEventType |-> ""]

Entry(id, x, y) == [playerId |-> <<id>>, x |-> x, y |-> y]

EntryNoId(x, y) == [playerId |-> <<>>, x |-> x, y |-> y]

Group(entries) == [present |-> TRUE, entries |-> entries]

NoGroup == [present |-> FALSE, entries |-> <<>>]

Ev(seq, time, ge, pe, home, away) ==
    [sequence |-> seq, eventTime |-> time, gameEvents |-> ge,
     possessionEvents |-> pe, homePlayers |-> home, awayPlayers |-> away]

-----------------------------------------------------------------------------
(* events.sort(key=lambda x: (sequence or 0, eventTime or 0)): a stable sort *)

OrZero(opt) == IF opt = <<>> THEN 0 ELSE opt[1]

SortKey(e) == <<OrZero(e.sequence), OrZero(e.eventTime)>>

KeyLE(a, b) == a[1] < b[1] \/ (a[1] = b[1] /\ a[2] <= b[2])

RECURSIVE InsertSorted(_, _)
InsertSorted(sorted, e) ==
    IF sorted = <<>> THEN <<e>>
    ELSE IF KeyLE(SortKey(sorted[Len(sorted)]), SortKey(e)) THEN Append(sorted, e)
    ELSE Append(InsertSorted(SubSeq(sorted, 1, Len(sorted) - 1), e), sorted[Len(sorted)])

RECURSIVE SortEvents(_)
SortEvents(evs) ==
    IF evs = <<>> THEN <<>>
    ELSE InsertSorted(SortEvents(SubSeq(evs, 1, Len(evs) - 1)), evs[Len(evs)])

-----------------------------------------------------------------------------
(* The parse of one event inside the inner try *)

Upper(s) ==
    CASE s = "pass" -> "PASS"
      [] s = "pa" -> "PA"
      [] OTHER -> s

ContainsPASS(s) == s \in {"PASS", "LONG_PASS"}

\* any attribute access on a null gameEvents / possessionEvents raises, and the
\* except clause skips the event
ParseRaises(event) ==
    event.gameEvents.shape = "null" \/ event.possessionEvents.shape = "null"

TeamIdOf(event) ==
    IF event.gameEvents.shape = "object" THEN event.gameEvents.teamId ELSE None

EventTimeOf(event) == OrZero(event.eventTime)

PlayerIdOf(event) ==
    IF event.gameEvents.shape = "object" THEN event.gameEvents.playerId ELSE 0

\* game_event.get('gameEventType', default)
EventTypeOf(event, default) ==
    IF event.gameEvents.shape = "object" /\ event.gameEvents.gameEventType # <<>>
    THEN event.gameEvents.gameEventType[1]
    ELSE default

BatchEventType(event) == EventTypeOf(event, "PASS")

UploadGameType(event) == EventTypeOf(event, "")

PossTypeOf(event) ==
    IF event.possessionEvents.shape = "object"
    THEN event.possessionEvents.possessionEventType
    ELSE ""

IsPass(event_type, poss_type) ==
    IF event_type # "" /\ ContainsPASS(Upper(event_type)) THEN TRUE
    ELSE poss_type # "" /\ (Upper(poss_type) = "PA" \/ ContainsPASS(Upper(poss_type)))

-----------------------------------------------------------------------------
(* Feature resolution: the coordinates of the player of a pass *)

\* for player in group: an identifier match ends the search with that player's
\* coordinates; otherwise the first player seen is remembered.  found is <<>>
\* (None) or <<point>>.  An entry without 'playerId' raises KeyError.
RECURSIVE ScanGroup(_, _, _)
ScanGroup(entries, player_id, found) ==
    IF entries = <<>> THEN [kind |-> "end", found |-> found]
    ELSE LET p == Head(entries)
         IN IF p.playerId = <<>> THEN [kind |-> "KeyError", found |-> found]
            ELSE IF p.playerId[1] = player_id
                 THEN [kind |-> "match", found |-> << <<p.x, p.y>> >>]
                 ELSE ScanGroup(Tail(entries), player_id,
                                IF found = <<>> THEN << <<p.x, p.y>> >> ELSE found)

\* generate_play_datasets.get_player_coordinates: home, then away, then the
\* first player seen in either
get_player_coordinates(event_data, player_id) ==
    LET h == IF event_data.homePlayers.present
             THEN ScanGroup(event_data.homePlayers.entries, player_id, <<>>)
             ELSE [kind |-> "end", found |-> <<>>]
    IN IF h.kind # "end" THEN h
       ELSE IF event_data.awayPlayers.present
            THEN ScanGroup(event_data.awayPlayers.entries, player_id, h.found)
            ELSE h

\* Football/main.py, "Standard Home/Away Search": the away group is scanned
\* only when the home scan left coords empty
UploadCoords(event, player_id) ==
    LET h == IF event.homePlayers.present
             THEN ScanGroup(event.homePlayers.entries, player_id, <<>>)
             ELSE [kind |-> "end", found |-> <<>>]
    IN IF h.kind = "KeyError" THEN h
       ELSE IF h.found = <<>> /\ event.awayPlayers.present
            THEN ScanGroup(event.awayPlayers.entries, player_id, <<>>)
            ELSE h

-----------------------------------------------------------------------------
(* The loop body of the two segmenters, on the accumulators S *)

GAP_THRESHOLD == 30

LAST_EVENT_TIME_INIT == 0 - 999

FILENAME == "upload.json"

InitAcc ==
    [current_team_id |-> None, current_sequence |-> <<>>, current_metadata |-> <<>>,
     last_event_time |-> LAST_EVENT_TIME_INIT, plays |-> <<>>,
     current_src |-> <<>>, plays_src |-> <<>>, dropped |-> {}, raised |-> FALSE]

\* a flush that keeps any chain holding a point
ShouldFlushAny(seq) == Len(seq) >= 1

\* if len(current_sequence) >= 2
ShouldFlush(seq) == Len(seq) >= 2

BatchPlay(filename, S) ==
    [play_id |-> <<filename, Len(S.plays)>>, trajectory |-> S.current_sequence,
     metadata |-> S.current_metadata, length |-> Len(S.current_sequence),
     team_id |-> S.current_team_id]

UploadPlay(S) ==
    [trajectory |-> S.current_sequence, metadata |-> S.current_metadata,
     length |-> Len(S.current_sequence), play_id_local |-> Len(S.plays)]

\* append the chain to the plays if it is long enough, else it is lost
FlushChain(S, play) ==
    IF ShouldFlush(S.current_sequence)
    THEN [S EXCEPT !.plays = Append(@, play), !.plays_src = Append(@, S.current_src)]
    ELSE [S EXCEPT !.dropped = @ \cup Range(S.current_src)]

IsBreak(S, team_id, event_time) ==
    team_id # S.current_team_id \/ event_time - S.last_event_time > GAP_THRESHOLD

\* the chain-break block followed by a watermark update that takes any timestamp
MarkAlways(S, team_id, event_time, play) ==
    LET B == IF IsBreak(S, team_id, event_time)
             THEN [FlushChain(S, play) EXCEPT !.current_sequence = <<>>,
                                              !.current_metadata = <<>>,
                                              !.current_src = <<>>,
                                              !.current_team_id = team_id]
             ELSE S
    IN [B EXCEPT !.last_event_time = event_time]

\* the chain-break block followed by the watermark update
BreakAndMark(S, team_id, event_time, play) ==
    LET B == IF IsBreak(S, team_id, event_time)
             THEN [FlushChain(S, play) EXCEPT !.current_sequence = <<>>,
                                              !.current_metadata = <<>>,
                                              !.current_src = <<>>,
                                              !.current_team_id = team_id]
             ELSE S
    IN [B EXCEPT !.last_event_time = IF event_time > 0 THEN event_time ELSE @]

\* an append that forgets the annotation
AppendPointOnly(S, point, meta, idx) ==
    [S EXCEPT !.current_sequence = Append(@, point),
              !.current_src = Append(@, idx)]

AppendPoint(S, point, meta, idx) ==
    [S EXCEPT !.current_sequence = Append(@, point),
              !.current_metadata = Append(@, meta),
              !.current_src = Append(@, idx)]

BatchBody(S, event, idx, filename) ==
    IF ParseRaises(event) THEN S
    ELSE LET team_id == TeamIdOf(event)
             event_type == BatchEventType(event)
             W == BreakAndMark(S, team_id, EventTimeOf(event), BatchPlay(filename, S))
         IN IF ~IsPass(event_type, PossTypeOf(event)) THEN W
            ELSE LET c == get_player_coordinates(event, PlayerIdOf(event))
                 IN IF c.kind = "KeyError" THEN [W EXCEPT !.raised = TRUE]
                    ELSE IF c.found = <<>> THEN W
                    ELSE AppendPoint(W, c.found[1],
                                     [player |-> "Unknown", team |-> team_id,
                                      type |-> event_type], idx)

UploadBody(S, event, idx) ==
    IF ParseRaises(event) THEN S
    ELSE LET team_id == TeamIdOf(event)
             W == BreakAndMark(S, team_id, EventTimeOf(event), UploadPlay(S))
         IN IF ~IsPass(UploadGameType(event), PossTypeOf(event)) THEN W
            ELSE LET c == UploadCoords(event, PlayerIdOf(event))
                 IN IF c.kind = "KeyError" THEN [W EXCEPT !.raised = TRUE]
                    ELSE IF c.found = <<>> THEN W
                    ELSE AppendPoint(W, c.found[1],
                                     [player |-> "Unknown", team |-> team_id], idx)

\* the whole functions, as the callers of the matcher use them: the result is
\* [raised, plays]
RECURSIVE BatchLoop(_, _, _, _)
BatchLoop(S, evs, idx, filename) ==
    IF S.raised \/ idx > Len(evs) THEN S
    ELSE BatchLoop(BatchBody(S, evs[idx], idx, filename), evs, idx + 1, filename)

extract_plays_from_file(evs, filename) ==
    LET S == BatchLoop(InitAcc, SortEvents(evs), 1, filename)
    IN IF S.raised THEN [raised |-> TRUE, plays |-> <<>>]
       ELSE [raised |-> FALSE, plays |-> FlushChain(S, BatchPlay(filename, S)).plays]

RECURSIVE UploadLoop(_, _, _)
UploadLoop(S, evs, idx) ==
    IF S.raised \/ idx > Len(evs) THEN S
    ELSE UploadLoop(UploadBody(S, evs[idx], idx), evs, idx + 1)

\* the outer except returns [] for any exception of the loop
parse_uploaded_json_content(evs) ==
    LET S == UploadLoop(InitAcc, SortEvents(evs), 1)
    IN IF S.raised THEN <<>> ELSE FlushChain(S, UploadPlay(S)).plays

-----------------------------------------------------------------------------
(* The event streams of the segmentation runs *)

MaxEvents == 4

Home1(x) == Group(<<Entry(1, x, 0)>>)

PassEv(time, team, x) ==
    Ev(<<>>, <<time>>, GameObj(team, 1, <<"PASS">>), PossMissing, Home1(x), NoGroup)

\* a pass by its possession type only, team B
PossPassEv == Ev(<<>>, <<5>>, GameObj("B", 1, <<"SHOT">>), PossObj("pa"), Home1(3), NoGroup)

\* not a pass
ShotEv == Ev(<<>>, <<5>>, GameObj("A", 1, <<"SHOT">>), PossObj(""), Home1(4), NoGroup)

\* no 'gameEventType' key
NoTypeEv == Ev(<<>>, <<5>>, GameObj("A", 1, <<>>), PossMissing, Home1(5), NoGroup)

\* "gameEvents": null
NullGameEv == Ev(<<>>, <<40>>, GameNull, PossMissing, Home1(6), NoGroup)

\* a pass whose only player entry has no 'playerId'
BadPlayerEv ==
    Ev(<<>>, <<5>>, GameObj("A", 1, <<"PASS">>), PossMissing,
       Group(<<EntryNoId(7, 0)>>), NoGroup)

\* 'sequence' given, no 'eventTime', lower-case type
LateEv == Ev(<<1>>, <<>>, GameObj("A", 1, <<"pass">>), PossMissing, Home1(8), NoGroup)

\* a pass with a timestamp below 0
NegTimeEv == PassEv(0 - 5, "A", 9)

Palette ==
    {PassEv(0, "A", 0), PassEv(5, "A", 1), PassEv(40, "A", 2),
     PossPassEv, ShotEv, NoTypeEv, NullGameEv, BadPlayerEv, LateEv, NegTimeEv}

-----------------------------------------------------------------------------
(* The segmentation run, one loop iteration per step *)

Acc ==
    [current_team_id |-> current_team_id, current_sequence |-> current_sequence,
     current_metadata |-> current_metadata, last_event_time |-> last_event_time,
     plays |-> plays, current_src |-> current_src, plays_src |-> plays_src,
     dropped |-> dropped, raised |-> FALSE]

SetAcc(S) ==
    /\ current_team_id' = S.current_team_id
    /\ current_sequence' = S.current_sequence
    /\ current_metadata' = S.current_metadata
    /\ last_event_time' = S.last_event_time
    /\ plays' = S.plays
    /\ current_src' = S.current_src
    /\ plays_src' = S.plays_src
    /\ dropped' = S.dropped

EmptyMap == [k \in {} |-> <<>>]

NoResponse == [status |-> "none"]

\* no corpus built, no server started
MatchIdle ==
    /\ main_pc = "files"
    /\ files_read = 0
    /\ play_buckets = EmptyMap
    /\ disk = EmptyMap
    /\ server_pc = "down"
    /\ PLAY_DATABASE = EmptyMap
    /\ response = NoResponse

\* no melody database built, no melody server started
HumIdle ==
    /\ songs_read = 0
    /\ database = <<>>
    /\ melody_file = [exists |-> FALSE, content |-> <<>>]
    /\ hum_pc = "down"
    /\ DATABASE = <<>>
    /\ hum_response = NoResponse

\* the Streamlit script not yet run
AppIdle ==
    /\ app_pc = "down"
    /\ session_database = <<>>
    /\ session_results = <<>>
    /\ app_error = ""
    /\ app_hum = <<>>
    /\ app_windows = <<>>

SegInit ==
    /\ entry \in {"batch", "upload"}
    /\ events \in SeqsUpTo(Palette, MaxEvents)
    /\ pc = "sort"
    /\ i = 1
    /\ current_team_id = InitAcc.current_team_id
    /\ current_sequence = InitAcc.current_sequence
    /\ current_metadata = InitAcc.current_metadata
    /\ last_event_time = InitAcc.last_event_time
    /\ plays = InitAcc.plays
    /\ current_src = <<>>
    /\ plays_src = <<>>
    /\ dropped = {}
    /\ parse_error = FALSE
    /\ MatchIdle
    /\ deployment = "none"
    /\ fastdtw_build = "none"
    /\ HumIdle
    /\ AppIdle

\* events.sort(...)
Sort ==
    /\ pc = "sort"
    /\ events' = SortEvents(events)
    /\ pc' = "loop"
    /\ UNCHANGED <<entry, i, current_team_id, current_sequence, current_metadata,
                   last_event_time, plays, current_src, plays_src, dropped,
                   parse_error>>
    /\ UNCHANGED <<matchvars, envvars, humvars, appvars>>

\* one iteration of "for event in events" of extract_plays_from_file; a
\* KeyError of get_player_coordinates leaves the function
BatchStep ==
    /\ entry = "batch" /\ pc = "loop" /\ i <= Len(events)
    /\ LET S == BatchBody(Acc, events[i], i, FILENAME)
       IN /\ SetAcc(S)
          /\ pc' = IF S.raised THEN "raised" ELSE "loop"
          /\ i' = IF S.raised THEN i ELSE i + 1
    /\ UNCHANGED <<entry, events, parse_error>>
    /\ UNCHANGED <<matchvars, envvars, humvars, appvars>>

\* "Flush last sequence" and return file_plays
BatchReturn ==
    /\ entry = "batch" /\ pc = "loop" /\ i > Len(events)
    /\ SetAcc(FlushChain(Acc, BatchPlay(FILENAME, Acc)))
    /\ pc' = "returned"
    /\ UNCHANGED <<entry, events, i, parse_error>>
    /\ UNCHANGED <<matchvars, envvars, humvars, appvars>>

\* one iteration of the loop of parse_uploaded_json_content; an exception
\* outside the inner try reaches the outer except, which returns []
UploadStep ==
    /\ entry = "upload" /\ pc = "loop" /\ i <= Len(events)
    /\ LET S == UploadBody(Acc, events[i], i)
       IN IF S.raised
          THEN /\ SetAcc([S EXCEPT !.plays = <<>>, !.plays_src = <<>>])
               /\ pc' = "returned"
               /\ parse_error' = TRUE
               /\ i' = i
          ELSE /\ SetAcc(S)
               /\ pc' = "loop"
               /\ parse_error' = parse_error
               /\ i' = i + 1
    /\ UNCHANGED <<entry, events>>
    /\ UNCHANGED <<matchvars, envvars, humvars, appvars>>

\* "Flush last" and return extracted_plays
UploadReturn ==
    /\ entry = "upload" /\ pc = "loop" /\ i > Len(events)
    /\ SetAcc(FlushChain(Acc, UploadPlay(Acc)))
    /\ pc' = "returned"
    /\ UNCHANGED <<entry, events, i, parse_error>>
    /\ UNCHANGED <<matchvars, envvars, humvars, appvars>>

Init == SegInit

Next == Sort \/ BatchStep \/ BatchReturn \/ UploadStep \/ UploadReturn

Spec == Init /\ [][Next]_vars

-----------------------------------------------------------------------------
(* Vocabulary of the segmentation claims *)

Done == pc \in {"returned", "raised"}

Trajectories(ps) == [k \in DOMAIN ps |-> ps[k].trajectory]

HasBadEntry(e) ==
    \E g \in {e.homePlayers, e.awayPlayers} : \E k \in DOMAIN g.entries :
        g.entries[k].playerId = <<>>

Malformed(e) == ParseRaises(e) \/ HasBadEntry(e)

\* an event with its type and its timestamp given and nothing unparsable
Clean(e) ==
    /\ ~Malformed(e)
    /\ e.gameEvents.shape = "object"
    /\ e.gameEvents.gameEventType # <<>>
    /\ e.eventTime # <<>>

Signal(e) == IsPass(e.gameEvents.gameEventType[1], PossTypeOf(e))

HasEntity(e) == e.homePlayers.entries # <<>> \/ e.awayPlayers.entries # <<>>

OneKey(evs) == \A j, k \in DOMAIN evs : evs[j].gameEvents.teamId = evs[k].gameEvents.teamId

GapAt(evs, k) == evs[k].eventTime[1] - evs[k - 1].eventTime[1]

SignalCount(evs) == Cardinality({k \in DOMAIN evs : Signal(evs[k])})

\* the point a signal event stands for
PointOf(e) == get_player_coordinates(e, PlayerIdOf(e)).found[1]

Points(evs, from, to) == [k \in 1..(to - from + 1) |-> PointOf(evs[from + k - 1])]

RECURSIVE SelectEvents(_, _)
SelectEvents(evs, keep) ==
    IF evs = <<>> THEN <<>>
    ELSE IF keep[1] THEN <<Head(evs)>> \o SelectEvents(Tail(evs), Tail(keep))
    ELSE SelectEvents(Tail(evs), Tail(keep))

WellFormedOnly(evs) == SelectEvents(evs, [k \in DOMAIN evs |-> ~Malformed(evs[k])])

-----------------------------------------------------------------------------
(* C1: the three signal events (t=0, A, (0,0)), (t=5, A, (1,0)),          *)
(* (t=40, A, (2,0)) are segmented into exactly one sequence,               *)
(* [(0,0),(1,0)]; the point of t=40 is not emitted.                        *)
C1_Scenario ==
    (pc = "returned"
        /\ events = <<PassEv(0, "A", 0), PassEv(5, "A", 1), PassEv(40, "A", 2)>>)
    => Trajectories(plays) = << << <<0, 0>>, <<1, 0>> >> >>

(* C2: a stream of one group key in which no gap between consecutive       *)
(* events exceeds 30 is emitted as exactly one sequence, whose length is   *)
(* the number of its signal events (all features resolving).  Stated for   *)
(* streams of at least two signal events, which the minimum length of a    *)
(* sequence (C7) does not exclude.                                         *)
C2_OneRunOneSequence ==
    (/\ pc = "returned"
     /\ \A k \in DOMAIN events : Clean(events[k]) /\ HasEntity(events[k])
     /\ OneKey(events)
     /\ \A k \in 2..Len(events) : GapAt(events, k) <= GAP_THRESHOLD
     /\ SignalCount(events) >= 2)
    => (Len(plays) = 1 /\ plays[1].length = SignalCount(events))

(* C3: in a stream of signal events of one group key with exactly one gap  *)
(* above 30, at event g, the points before g and the points from g on are  *)
(* two chains, each emitted as a sequence iff it holds at least 2 points.  *)
C3_SingleGapSplits ==
    \A g \in 2..Len(events) :
        (/\ pc = "returned"
         /\ \A k \in DOMAIN events :
                Clean(events[k]) /\ HasEntity(events[k]) /\ Signal(events[k])
         /\ OneKey(events)
         /\ \A k \in 2..Len(events) : (GapAt(events, k) > GAP_THRESHOLD) <=> (k = g))
        => Trajectories(plays) =
              (IF g - 1 >= 2 THEN <<Points(events, 1, g - 1)>> ELSE <<>>)
              \o (IF Len(events) - g + 1 >= 2
                  THEN <<Points(events, g, Len(events))>> ELSE <<>>)

(* C4: a stream holding a malformed event (null gameEvents or              *)
(* possessionEvents, a player entry without identifier) is still segmented *)
(* to the end and returns every sequence of the remaining well-formed      *)
(* events; the run is never aborted and loses no completed sequence.       *)
C4_MalformedSkipped ==
    Done =>
        /\ pc = "returned"
        /\ ~parse_error
        /\ Trajectories(plays) =
              Trajectories(IF entry = "batch"
                           THEN extract_plays_from_file(WellFormedOnly(events),
                                                        FILENAME).plays
                           ELSE parse_uploaded_json_content(WellFormedOnly(events)))

(* C6: the batch segmentation and the upload segmentation are the same     *)
(* function: on every event list they return the same sequences, in the    *)
(* same order, with the same points and lengths.                           *)
C6_SameFunction ==
    pc = "returned" =>
        LET other == IF entry = "batch"
                     THEN parse_uploaded_json_content(events)
                     ELSE extract_plays_from_file(events, FILENAME).plays
        IN /\ Trajectories(plays) = Trajectories(other)
           /\ [k \in DOMAIN plays |-> plays[k].length]
                = [k \in DOMAIN other |-> other[k].length]

(* C7: every emitted sequence has at least 2 points, at a chain break and  *)
(* at the end of the stream alike, and no point of a chain that was        *)
(* discarded for being shorter is in an emitted sequence.                  *)
C7_MinLength ==
    /\ DOMAIN plays_src = DOMAIN plays
    /\ \A k \in DOMAIN plays :
          /\ Len(plays[k].trajectory) >= 2
          /\ plays[k].length >= 2
          /\ Len(plays_src[k]) = Len(plays[k].trajectory)
          /\ Range(plays_src[k]) \cap dropped = {}

\* a finished run that discarded a short chain and emitted, at the end of the
\* stream, a sequence holding the last event
C7_Witness ==
    /\ pc = "returned"
    /\ Len(plays) >= 1
    /\ dropped # {}
    /\ Len(events) \in Range(plays_src[Len(plays_src)])

\* the events the loop has been through: a KeyError leaves the loop inside
\* the iteration of event i
Processed == IF pc = "raised" \/ parse_error THEN i ELSE i - 1

\* the timestamp of the last of the first n events that was not skipped as
\* malformed and whose timestamp is above 0; the sentinel when there is none
RECURSIVE LastPositive(_, _)
LastPositive(evs, n) ==
    IF n = 0 THEN LAST_EVENT_TIME_INIT
    ELSE IF ~ParseRaises(evs[n]) /\ EventTimeOf(evs[n]) > 0 THEN EventTimeOf(evs[n])
    ELSE LastPositive(evs, n - 1)

(* C15: throughout a run the watermark last_event_time is the initial      *)
(* sentinel or the timestamp of the most recently processed event whose    *)
(* timestamp is above 0 (an event skipped as malformed is not processed);  *)
(* an event whose timestamp is 0, negative or missing leaves it unchanged. *)
C15_Watermark ==
    /\ last_event_time = LastPositive(events, Processed)
    /\ last_event_time = LAST_EVENT_TIME_INIT \/ last_event_time > 0

\* a finished run whose watermark is a timestamp, although it processed a
\* pass with a timestamp below 0 and, as its last event, a pass without
\* 'eventTime' that is in an emitted sequence
C15_Witness ==
    /\ pc = "returned" /\ ~parse_error
    /\ last_event_time > 0
    /\ events # <<>>
    /\ events[1] = NegTimeEv
    /\ ~Malformed(events[Len(events)])
    /\ events[Len(events)].eventTime = <<>>
    /\ Len(events) \in UNION {Range(plays_src[k]) : k \in DOMAIN plays_src}

(* C16: at every step of a run the accumulating point list and the         *)
(* accumulating annotation list have the same length, and every emitted    *)
(* sequence has length = number of points = number of annotations.         *)
C16_ParallelLists ==
    /\ Len(current_sequence) = Len(current_metadata)
    /\ \A k \in DOMAIN plays :
          /\ plays[k].length = Len(plays[k].trajectory)
          /\ plays[k].length = Len(plays[k].metadata)

\* mid-run: a sequence emitted and a point of the next chain accumulated
C16_Witness ==
    /\ pc = "loop"
    /\ Len(plays) >= 1
    /\ Len(current_sequence) >= 1

-----------------------------------------------------------------------------
(* Feature resolution on its own: one pass event whose two player groups   *)
(* and target identifier are drawn from small sets, segmented by either    *)
(* function.                                                               *)

MaxPlayers == 2

Entries == {Entry(id, x, 0) : id \in 1..2, x \in 0..1}

Groups == {NoGroup} \cup {Group(g) : g \in SeqsUpTo(Entries, MaxPlayers)}

TargetEv(target, home, away) ==
    Ev(<<>>, <<5>>, GameObj("A", target, <<"PASS">>), PossMissing, home, away)

ResolveInit ==
    /\ entry \in {"batch", "upload"}
    /\ \E target \in {1, 3}, home \in Groups, away \in Groups :
          events = <<TargetEv(target, home, away)>>
    /\ pc = "sort"
    /\ i = 1
    /\ current_team_id = InitAcc.current_team_id
    /\ current_sequence = InitAcc.current_sequence
    /\ current_metadata = InitAcc.current_metadata
    /\ last_event_time = InitAcc.last_event_time
    /\ plays = InitAcc.plays
    /\ current_src = <<>>
    /\ plays_src = <<>>
    /\ dropped = {}
    /\ parse_error = FALSE
    /\ MatchIdle
    /\ deployment = "none"
    /\ fastdtw_build = "none"
    /\ HumIdle
    /\ AppIdle

SpecResolve == ResolveInit /\ [][Next]_vars

AllEntries(e) == e.homePlayers.entries \o e.awayPlayers.entries

Matching(e) ==
    {<<AllEntries(e)[k].x, AllEntries(e)[k].y>> :
        k \in {j \in DOMAIN AllEntries(e) :
                  AllEntries(e)[j].playerId = <<e.gameEvents.playerId>>}}

FirstEntity(e) == <<AllEntries(e)[1].x, AllEntries(e)[1].y>>

(* C5: the feature of a signal event is the coordinates of an entity of    *)
(* the first or the second group whose identifier equals the target, if    *)
(* there is one; the first entity encountered is used only when no entity  *)
(* of either group matches; the event gives no point only when both        *)
(* groups are empty or absent.                                             *)
C5_FeatureResolution ==
    (pc = "loop" /\ i = 2) =>
        LET e == events[1]
        IN /\ Matching(e) # {} =>
                 (Len(current_sequence) = 1 /\ current_sequence[1] \in Matching(e))
           /\ (Matching(e) = {} /\ HasEntity(e)) => current_sequence = <<FirstEntity(e)>>
           /\ current_sequence = <<>> => ~HasEntity(e)

-----------------------------------------------------------------------------
(* fastdtw(x, y, radius, dist=euclidean).  A series is a sequence of       *)
(* points, a point a sequence of coordinates.  The model's coordinates are *)
(* integers for which every square root and every halving below is exact.  *)

Inf == 1000000

\* the largest r of lo..hi with r * r <= n, by bisection
RECURSIVE SqrtBetween(_, _, _)
SqrtBetween(n, lo, hi) ==
    IF lo = hi THEN lo
    ELSE LET mid == (lo + hi + 1) \div 2
         IN IF mid <= n \div mid THEN SqrtBetween(n, mid, hi)
            ELSE SqrtBetween(n, lo, mid - 1)

ISqrt(n) == SqrtBetween(n, 0, n)

RECURSIVE SumSquares(_, _)
SumSquares(p, q) ==
    IF p = <<>> THEN 0
    ELSE (p[1] - q[1]) * (p[1] - q[1]) + SumSquares(Tail(p), Tail(q))

\* scipy.spatial.distance.euclidean
euclidean(p, q) == ISqrt(SumSquares(p, q))

AddCost(c, dt) == IF c >= Inf THEN Inf ELSE c + dt

\* the (float('inf'),) of the defaultdict: a cell never written
Unset == [cost |-> Inf, pi |-> 0 - 1, pj |-> 0 - 1, set |-> FALSE]

\* window = [(i, j) for i in range(len_x) for j in range(len_y)]
FullWindow(len_x, len_y) ==
    [k \in 1..(len_x * len_y) |-> <<(k - 1) \div len_y, (k - 1) % len_y>>]

\* fastdtw.py: min(up, left, diagonal, key=cost), the first of the least.
\* _fastdtw.pyx: "if d_up < d_left and d_up < d_corner ... elif d_left <
\* d_corner ... else" the diagonal.  Which of the two a service imports is
\* decided when the package is installed.
Cheapest(D, ci, cj, dt) ==
    LET up == AddCost(D[<<ci - 1, cj>>].cost, dt)
        left == AddCost(D[<<ci, cj - 1>>].cost, dt)
        diag == AddCost(D[<<ci - 1, cj - 1>>].cost, dt)
        strict == fastdtw_build = "compiled"
    IN IF (IF strict THEN up < left /\ up < diag ELSE up <= left /\ up <= diag)
       THEN [cost |-> up, pi |-> ci - 1, pj |-> cj, set |-> TRUE]
       ELSE IF (IF strict THEN left < diag ELSE left <= diag)
            THEN [cost |-> left, pi |-> ci, pj |-> cj - 1, set |-> TRUE]
            ELSE [cost |-> diag, pi |-> ci - 1, pj |-> cj - 1, set |-> TRUE]

\* the index of the last cell of the window in the row of its k-th cell
RowEnd(window, k) ==
    CHOOSE m \in k..Len(window) :
        /\ \A n \in k..m : window[n][1] = window[k][1]
        /\ m = Len(window) \/ window[m + 1][1] # window[k][1]

\* D[i, j] = min(...)
WriteCell(D, ci, cj, x, y) ==
    [D EXCEPT ![<<ci, cj>>] = Cheapest(D, ci, cj, euclidean(x[ci], y[cj]))]

\* for i, j in window: D[i, j] = min(...), over the cells k..last of one row;
\* d is D after the assignment to the k-th cell
RECURSIVE FillRow(_, _, _, _, _, _)
FillRow(D, window, k, last, x, y) ==
    IF k > last THEN D
    ELSE CHOOSE filled \in
             {FillRow(d, window, k + 1, last, x, y) :
                 d \in {WriteCell(D, window[k][1] + 1, window[k][2] + 1, x, y)}} : TRUE

\* for i, j in window: D[i, j] = min(...), the window taken row after row;
\* d is D after the assignments of a row
RECURSIVE FillCosts(_, _, _, _, _)
FillCosts(D, window, k, x, y) ==
    IF k > Len(window) THEN D
    ELSE CHOOSE filled \in
             {FillCosts(d, window, RowEnd(window, k) + 1, x, y) :
                 d \in {FillRow(D, window, k, RowEnd(window, k), x, y)}} : TRUE

\* while not (i == j == 0): path.append((i-1, j-1)); i, j = D[i, j][1], D[i, j][2]
\* reading the predecessor of a cell never written raises IndexError
RECURSIVE BackTrack(_, _, _, _)
BackTrack(D, ci, cj, path) ==
    IF ci = 0 /\ cj = 0 THEN [kind |-> "ok", path |-> path]
    ELSE IF ~D[<<ci, cj>>].set THEN [kind |-> "IndexError", path |-> <<>>]
    ELSE BackTrack(D, D[<<ci, cj>>].pi, D[<<ci, cj>>].pj, <<<<ci - 1, cj - 1>>>> \o path)

\* D = defaultdict(lambda: (float('inf'),)); D[0, 0] = (0, 0, 0)
InitialCosts(len_x, len_y) ==
    [c \in (0..len_x) \X (0..len_y) |->
        IF c = <<0, 0>> THEN [cost |-> 0, pi |-> 0, pj |-> 0, set |-> TRUE]
        ELSE Unset]

\* return (D[len_x, len_y][0], path)
DtwReturn(distance, back) ==
    [kind |-> back.kind, distance |-> distance, path |-> back.path]

\* the path and the distance read from the filled D
ReadCosts(D, len_x, len_y) ==
    DtwReturn(D[<<len_x, len_y>>].cost, BackTrack(D, len_x, len_y, <<>>))

\* __dtw(x, y, window, dist): [kind, distance, path]
WindowedDtw(x, y, window) ==
    ReadCosts(FillCosts(InitialCosts(Len(x), Len(y)), window, 1, x, y), Len(x), Len(y))

\* dtw(x, y, dist)
ExactDtw(x, y) == WindowedDtw(x, y, FullWindow(Len(x), Len(y)))

\* __reduce_by_half: [(x[i] + x[1+i]) / 2 for i in range(0, len(x) - len(x) % 2, 2)]
ReduceByHalf(x) ==
    Tuple([k \in 1..(Len(x) \div 2) |->
              Tuple([c \in DOMAIN x[2 * k - 1] |-> (x[2 * k - 1][c] + x[2 * k][c]) \div 2])])

\* the first run of window cells of row ci at or after column start_j
RECURSIVE RowRun(_, _, _, _, _)
RowRun(cellset, ci, cj, len_y, started) ==
    IF cj >= len_y THEN <<>>
    ELSE IF <<ci, cj>> \in cellset
         THEN <<<<ci, cj>>>> \o RowRun(cellset, ci, cj + 1, len_y, TRUE)
         ELSE IF started THEN <<>>
              ELSE RowRun(cellset, ci, cj + 1, len_y, FALSE)

RECURSIVE WindowRows(_, _, _, _, _)
WindowRows(cellset, ci, start_j, len_x, len_y) ==
    IF ci >= len_x THEN <<>>
    ELSE LET run == RowRun(cellset, ci, start_j, len_y, FALSE)
         IN run \o WindowRows(cellset, ci + 1,
                              IF run = <<>> THEN len_y ELSE run[1][2], len_x, len_y)

\* __expand_window(path, len_x, len_y, radius)
ExpandWindow(path, len_x, len_y, radius) ==
    LET around == {<<c[1] + a, c[2] + b>> :
                       c \in Range(path), a \in (0 - radius)..radius,
                       b \in (0 - radius)..radius}
        doubled == UNION {{<<2 * c[1], 2 * c[2]>>, <<2 * c[1], 2 * c[2] + 1>>,
                           <<2 * c[1] + 1, 2 * c[2]>>, <<2 * c[1] + 1, 2 * c[2] + 1>>} :
                          c \in around}
    IN WindowRows(doubled, 0, 0, len_x, len_y)

\* window = __expand_window(path, len(x), len(y), radius); return __dtw(...)
\* on the path of the shrunk series; an exception of the shrunk call passes up
Refine(x, y, radius, coarse) ==
    IF coarse.kind # "ok" THEN coarse
    ELSE WindowedDtw(x, y, ExpandWindow(coarse.path, Len(x), Len(y), radius))

\* __fastdtw(x, y, radius, dist)
RECURSIVE fastdtw(_, _, _)
fastdtw(x, y, radius) ==
    IF Len(x) < radius + 2 \/ Len(y) < radius + 2 THEN ExactDtw(x, y)
    ELSE Refine(x, y, radius, fastdtw(ReduceByHalf(x), ReduceByHalf(y), radius))

-----------------------------------------------------------------------------
(* The corpus builder, the server's index and analyze_match *)

MaxFiles == 2

TOP_K == 3

RADIUS_DEFAULT == 1

\* ten passes to and fro between two places
ToAndFro == <<0, 2, 0, 2, 0, 2, 0, 2, 0, 2>>

\* the x coordinates of the passes of a chain; every y is 0
Trajs == {<<0, 0>>, <<0, 4>>, <<4, 8>>, <<0, 4, 8>>, ToAndFro}

\* the chains of a corpus file
ChainLists ==
    {<<>>, << <<0, 0>> >>, << <<0, 4>> >>, << <<0, 4, 8>> >>,
     << <<0, 0>>, <<0, 4>> >>, << <<0, 4>>, <<4, 8>> >>,
     << <<4, 8>>, <<0, 0>> >>, << <<0, 4, 8>>, <<0, 4>> >>, << ToAndFro >>}

Team(n) == IF n % 2 = 1 THEN "A" ELSE "B"

\* one chain per trajectory, the team changing from each chain to the next
RECURSIVE StreamOf(_, _, _)
StreamOf(trajs, n, t0) ==
    IF trajs = <<>> THEN <<>>
    ELSE [k \in 1..Len(trajs[1]) |-> PassEv(t0 + k, Team(n), trajs[1][k])]
         \o StreamOf(Tail(trajs), n + 1, t0 + Len(trajs[1]))

CorpusStreams == {StreamOf(c, 1, 0) : c \in ChainLists}

\* an upload of one chain, or of no event
UploadStreams == {<<>>} \cup {StreamOf(<<t>>, 1, 0) : t \in Trajs}

\* if length not in play_buckets: play_buckets[length] = []; then append
AddToBucket(buckets, p) ==
    IF p.length \in DOMAIN buckets
    THEN [buckets EXCEPT ![p.length] = Append(@, p)]
    ELSE buckets @@ (p.length :> <<p>>)

RECURSIVE AddAllToBuckets(_, _)
AddAllToBuckets(buckets, ps) ==
    IF ps = <<>> THEN buckets
    ELSE AddAllToBuckets(AddToBucket(buckets, Head(ps)), Tail(ps))

\* every play of the index, whatever its length
RECURSIVE AllPlays(_, _)
AllPlays(db, keys) ==
    IF keys = {} THEN <<>>
    ELSE LET k == CHOOSE m \in keys : \A n \in keys : m <= n
         IN db[k] \o AllPlays(db, keys \ {k})

AnyLength(db, length) == AllPlays(db, DOMAIN db)

\* PLAY_DATABASE.get(length, [])
Candidates(db, length) == IF length \in DOMAIN db THEN db[length] ELSE <<>>

\* q_traj - q_traj[0] under match_mode "relative"
Rebase(traj, match_mode) ==
    IF match_mode = "relative"
    THEN Tuple([k \in DOMAIN traj |->
                   Tuple([c \in DOMAIN traj[k] |-> traj[k][c] - traj[1][c]])])
    ELSE traj

\* the body of "for db_play in candidates"
PlayScore(db_play, d) ==
    [kind |-> d.kind,
     score |-> [match_play_id |-> db_play.play_id,
                similarity_score |-> d.distance,
                match_trajectory |-> db_play.trajectory,
                match_metadata |-> db_play.metadata]]

ScorePlay(q_comp, db_play, match_mode) ==
    PlayScore(db_play,
              fastdtw(q_comp, Rebase(db_play.trajectory, match_mode), RADIUS_DEFAULT))

RECURSIVE InsertByScore(_, _)
InsertByScore(sorted, e) ==
    IF sorted = <<>> THEN <<e>>
    ELSE IF sorted[Len(sorted)].similarity_score <= e.similarity_score
         THEN Append(sorted, e)
         ELSE Append(InsertByScore(SubSeq(sorted, 1, Len(sorted) - 1), e),
                     sorted[Len(sorted)])

RECURSIVE InsertBeforeEqual(_, _)
InsertBeforeEqual(sorted, e) ==
    IF sorted = <<>> THEN <<e>>
    ELSE IF sorted[Len(sorted)].similarity_score < e.similarity_score
         THEN Append(sorted, e)
         ELSE Append(InsertBeforeEqual(SubSeq(sorted, 1, Len(sorted) - 1), e),
                     sorted[Len(sorted)])

\* a sort that puts a later candidate before its equals
RECURSIVE UnstableSortByScore(_)
UnstableSortByScore(scores) ==
    IF scores = <<>> THEN <<>>
    ELSE InsertBeforeEqual(UnstableSortByScore(SubSeq(scores, 1, Len(scores) - 1)),
                           scores[Len(scores)])

RECURSIVE StableSortByScore(_)
StableSortByScore(scores) ==
    IF scores = <<>> THEN <<>>
    ELSE InsertByScore(StableSortByScore(SubSeq(scores, 1, Len(scores) - 1)),
                       scores[Len(scores)])

\* play_scores.sort(key=lambda x: x['similarity_score'])
SortByScore(scores) == StableSortByScore(scores)

\* play_scores[:3]
FirstK(scores, k) == SubSeq(scores, 1, Min(k, Len(scores)))

\* the body of "for query_play in input_plays"
\* results.append({...}) with the sorted play_scores cut to three
PlayResult(query_play, scored) ==
    [raised |-> \E k \in DOMAIN scored : scored[k].kind # "ok",
     result |-> [uploaded_play_id |-> query_play.play_id_local,
                 length |-> query_play.length,
                 input_trajectory |-> query_play.trajectory,
                 input_metadata |-> query_play.metadata,
                 matches |-> IF scored # <<>>
                             THEN FirstK(SortByScore([k \in DOMAIN scored |->
                                                         scored[k].score]), TOP_K)
                             ELSE <<>>]]

\* play_scores of "for db_play in candidates"
ScoreCandidates(q_comp, candidates, match_mode) ==
    [k \in DOMAIN candidates |-> ScorePlay(q_comp, candidates[k], match_mode)]

AnalyzePlay(db, query_play, match_mode) ==
    PlayResult(query_play,
               ScoreCandidates(Rebase(query_play.trajectory, match_mode),
                               Candidates(db, query_play.length), match_mode))

\* analyze_match(file, match_mode); match_mode is kept in the response as history
AnalysisResponse(analysed, match_mode) ==
    IF \E k \in DOMAIN analysed : analysed[k].raised
    THEN [status |-> "http500", match_mode |-> match_mode]
    ELSE [status |-> "success", total_plays_analyzed |-> Len(analysed),
          analysis_results |-> [k \in DOMAIN analysed |-> analysed[k].result],
          match_mode |-> match_mode]

AnalyzePlays(db, input_plays, match_mode) ==
    IF input_plays = <<>>
    THEN [status |-> "error", message |-> "No valid plays found in uploaded file.",
          match_mode |-> match_mode]
    ELSE AnalysisResponse([k \in DOMAIN input_plays |->
                              AnalyzePlay(db, input_plays[k], match_mode)], match_mode)

AnalyzeMatch(db, content, match_mode) ==
    AnalyzePlays(db, parse_uploaded_json_content(content), match_mode)

SegIdle ==
    /\ entry = "none"
    /\ events = <<>>
    /\ pc = "idle"
    /\ i = 1
    /\ current_team_id = InitAcc.current_team_id
    /\ current_sequence = InitAcc.current_sequence
    /\ current_metadata = InitAcc.current_metadata
    /\ last_event_time = InitAcc.last_event_time
    /\ plays = InitAcc.plays
    /\ current_src = <<>>
    /\ plays_src = <<>>
    /\ dropped = {}
    /\ parse_error = FALSE

\* one iteration of "for f in files" of main: segment the file, bucket its plays.
\* The server reads the datasets once, at startup: what main does after that
\* the server never sees, and the model does not follow it.
MainFile ==
    /\ deployment = "football"
    /\ server_pc = "down"
    /\ main_pc = "files" /\ files_read < MaxFiles
    /\ \E content \in CorpusStreams :
          \E r \in {extract_plays_from_file(content, files_read + 1)} :
             IF r.raised
             THEN main_pc' = "crashed" /\ UNCHANGED <<files_read, play_buckets>>
             ELSE /\ main_pc' = main_pc
                  /\ files_read' = files_read + 1
                  /\ play_buckets' = AddAllToBuckets(play_buckets, r.plays)
    /\ UNCHANGED <<disk, server_pc, PLAY_DATABASE, response>>
    /\ UNCHANGED <<segvars, envvars, humvars, appvars>>

\* "for length, plays in play_buckets.items()": dataset_length_<length>.json
MainSave ==
    /\ deployment = "football"
    /\ server_pc = "down"
    /\ main_pc = "files"
    /\ disk' = play_buckets
    /\ main_pc' = "saved"
    /\ UNCHANGED <<files_read, play_buckets, server_pc, PLAY_DATABASE,
                   response>>
    /\ UNCHANGED <<segvars, envvars, humvars, appvars>>

\* startup: PLAY_DATABASE[length_key] = data for each dataset file there is
load_database ==
    /\ deployment = "football"
    /\ server_pc = "down"
    /\ PLAY_DATABASE' = [length_key \in DOMAIN disk |-> disk[length_key]]
    /\ server_pc' = "up"
    /\ UNCHANGED <<main_pc, files_read, play_buckets, disk, response>>
    /\ UNCHANGED <<segvars, envvars, humvars, appvars>>

\* POST /analyze_match.  The handler changes nothing the next request reads,
\* so a behaviour follows one request.
analyze_match ==
    /\ deployment = "football"
    /\ server_pc = "up" /\ response = NoResponse
    /\ \E content \in UploadStreams, match_mode \in {"absolute", "relative"} :
          response' = AnalyzeMatch(PLAY_DATABASE, content, match_mode)
    /\ UNCHANGED <<main_pc, files_read, play_buckets, disk, server_pc, PLAY_DATABASE>>
    /\ UNCHANGED <<segvars, envvars, humvars, appvars>>

-----------------------------------------------------------------------------
(* The melody service: processor.py builds melody_database.json, server.py *)
(* matches a hum against it.  A pitch track is the MIDI numbers of the     *)
(* voiced frames (what librosa.pyin and hz_to_midi give); a zero-centred   *)
(* value v is held as the integer Unit * v.                                *)

MaxSongs == 3

FramesPerNote == 10

STRIDE == 10

HUM_RADIUS == 15

TOP_N == 2

MATCH_THRESHOLD == 5

\* the notes of a song, each held for FramesPerNote frames; <<>> is a file
\* without a voiced frame
SongNotes == {<<>>, <<60, 64>>, <<60, 62, 64, 62, 60>>}

\* the notes of a hum
HumNotes ==
    {<<>>, <<60, 64>>, <<60, 62, 64, 62, 60>>, <<60, 60, 62, 64, 64, 62>>,
     <<60, 60, 60, 60, 72>>}

\* a hum of twelve notes, and a song that holds it after two other notes
LongHum == <<60, 62, 64, 65, 67, 65, 64, 62, 60, 62, 64, 62>>

LongSong == <<64, 60>> \o LongHum

NoteSeqs == SongNotes \cup HumNotes \cup {LongHum, LongSong}

RECURSIVE Gcd(_, _)
Gcd(a, b) == IF b = 0 THEN a ELSE Gcd(b, a % b)

RECURSIVE LcmOf(_)
LcmOf(S) ==
    IF S = {} THEN 1
    ELSE LET n == CHOOSE m \in S : TRUE
             rest == LcmOf(S \ {n})
         IN (n * rest) \div Gcd(n, rest)

\* the least multiple of every number of notes, so that every mean is exact
Unit == LcmOf({Len(n) : n \in NoteSeqs} \ {0})

PitchTrack(notes) ==
    Tuple([k \in 1..(Len(notes) * FramesPerNote) |->
              notes[((k - 1) \div FramesPerNote) + 1]])

\* the sum of a sequence, by halves
RECURSIVE SumSeq(_)
SumSeq(seq) ==
    IF seq = <<>> THEN 0
    ELSE IF Len(seq) = 1 THEN seq[1]
    ELSE SumSeq(SubSeq(seq, 1, Len(seq) \div 2))
         + SumSeq(SubSeq(seq, (Len(seq) \div 2) + 1, Len(seq)))

\* midi_track - np.mean(midi_track), in units of 1 / Unit
ZeroCenter(midi_track) ==
    LET mean == (Unit * SumSeq(midi_track)) \div Len(midi_track)
    IN Tuple([k \in DOMAIN midi_track |-> Unit * midi_track[k] - mean])

\* seq[::stride]
Downsample(seq, stride) ==
    Tuple([k \in 1..((Len(seq) + stride - 1) \div stride) |-> seq[(k - 1) * stride + 1]])

\* seq.reshape(-1, 1)
Column(seq) == Tuple([k \in DOMAIN seq |-> <<seq[k]>>])

\* extract_pitch_contour / server.extract_hum_pitch: <<>> is None
extract_pitch(pitch_track) ==
    IF Len(pitch_track) = 0 THEN <<>> ELSE <<ZeroCenter(pitch_track)>>

SongFile(n) == <<n, IF n % 2 = 1 THEN "vocals.wav" ELSE ".wav">>

\* song_name.replace("vocals.wav", "").replace("Vocals.wav", "")
CleanName(song_name) ==
    IF song_name[2] \in {"vocals.wav", "Vocals.wav"} THEN <<song_name[1], "">>
    ELSE song_name

\* normalized_dist = distance / len(path), kept as the fraction dist / steps
ScoreLE(a, b) == a.dist * b.steps <= b.dist * a.steps

ScoreLT(a, b) == a.dist * b.steps < b.dist * a.steps

\* the body of "for song_name, song_data in DATABASE.items()"
SongScore(song_name, d) ==
    [kind |-> IF d.kind = "ok" /\ d.path = <<>> THEN "ZeroDivisionError" ELSE d.kind,
     result |-> [name |-> CleanName(song_name),
                 score |-> [dist |-> d.distance, steps |-> Len(d.path)]]]

ScoreSong(query_seq, item) ==
    SongScore(item.name, fastdtw(query_seq, Column(item.data), HUM_RADIUS))

RECURSIVE InsertByRatio(_, _)
InsertByRatio(sorted, e) ==
    IF sorted = <<>> THEN <<e>>
    ELSE IF ScoreLE(sorted[Len(sorted)].score, e.score) THEN Append(sorted, e)
    ELSE Append(InsertByRatio(SubSeq(sorted, 1, Len(sorted) - 1), e), sorted[Len(sorted)])

\* results.sort(key=lambda x: x["score"])
RECURSIVE SortResults(_)
SortResults(results) ==
    IF results = <<>> THEN <<>>
    ELSE InsertByRatio(SortResults(SubSeq(results, 1, Len(results) - 1)),
                       results[Len(results)])

\* get_top_matches(hum_path, top_n): [raised, matches]
\* results.sort(...); return results[:top_n]
TopResults(scored, top_n) ==
    IF \E k \in DOMAIN scored : scored[k].kind # "ok"
    THEN [raised |-> "IndexError", matches |-> <<>>]
    ELSE [raised |-> "",
          matches |-> FirstK(SortResults([k \in DOMAIN scored |-> scored[k].result]),
                             top_n)]

\* results of "for song_name, song_data in DATABASE.items()"
ScoreSongs(db, query_seq) == [k \in DOMAIN db |-> ScoreSong(query_seq, db[k])]

\* get_top_matches from "if hum_pitch is None" on
MatchHum(db, extracted, top_n) ==
    IF extracted = <<>>
    THEN [raised |-> "No pitch detected in hum! (Too quiet?)", matches |-> <<>>]
    ELSE TopResults(ScoreSongs(db, Column(Downsample(extracted[1], STRIDE))), top_n)

get_top_matches(db, pitch_track, top_n) ==
    MatchHum(db, extract_pitch(pitch_track), top_n)

\* an empty result list answered as a success
EmptyIsSuccess(pitch_track) ==
    [status |-> "success", best_match |-> <<0, "Unknown">>, matches |-> <<>>,
     pitch_track |-> pitch_track]

\* if not top_matches: return {"status": "error", "message": "Database is empty."}
NoMatches(pitch_track) ==
    [status |-> "error", message |-> "Database is empty.", pitch_track |-> pitch_track]

\* recognize_hum(file); the pitch track is kept in the response as history
HumResponse(top, pitch_track) ==
    IF top.raised # ""
    THEN [status |-> "error", message |-> top.raised, pitch_track |-> pitch_track]
    ELSE IF top.matches = <<>> THEN NoMatches(pitch_track)
    ELSE LET best == top.matches[1]
             match_found == best.score.dist < MATCH_THRESHOLD * Unit * best.score.steps
         IN [status |-> "success",
             best_match |-> IF match_found THEN best.name ELSE <<0, "Unknown">>,
             matches |-> top.matches,
             pitch_track |-> pitch_track]

RecognizeHum(db, pitch_track) ==
    HumResponse(get_top_matches(db, pitch_track, TOP_N), pitch_track)

\* one iteration of "for file in files" of process_songs; as for main, the
\* model follows process_songs until a matcher has started
ProcessSong ==
    /\ deployment \in {"melody", "streamlit"}
    /\ hum_pc = "down" /\ app_pc = "down"
    /\ ~melody_file.exists /\ songs_read < MaxSongs
    /\ songs_read' = songs_read + 1
    /\ \E notes \in SongNotes :
          \E melody \in {extract_pitch(PitchTrack(notes))} :
             database' = IF melody = <<>> THEN database
                         ELSE Append(database,
                                     [name |-> SongFile(songs_read + 1),
                                      data |-> Downsample(melody[1], STRIDE)])
    /\ UNCHANGED <<melody_file, hum_pc, DATABASE, hum_response>>
    /\ UNCHANGED <<segvars, matchvars, envvars, appvars>>

\* json.dump(database, f)
SaveMelodies ==
    /\ deployment \in {"melody", "streamlit"}
    /\ hum_pc = "down" /\ app_pc = "down"
    /\ ~melody_file.exists
    /\ melody_file' = [exists |-> TRUE, content |-> database]
    /\ UNCHANGED <<songs_read, database, hum_pc, DATABASE, hum_response>>
    /\ UNCHANGED <<segvars, matchvars, envvars, appvars>>

\* server.py at import: DATABASE = json.load(f) if the file exists, else {}
LoadMelodies ==
    /\ deployment = "melody"
    /\ hum_pc = "down"
    /\ DATABASE' = IF melody_file.exists THEN melody_file.content ELSE <<>>
    /\ hum_pc' = "up"
    /\ UNCHANGED <<songs_read, database, melody_file, hum_response>>
    /\ UNCHANGED <<segvars, matchvars, envvars, appvars>>

\* POST /recognize; one request, as for analyze_match
recognize_hum ==
    /\ deployment = "melody"
    /\ hum_pc = "up" /\ hum_response = NoResponse
    /\ \E notes \in HumNotes : hum_response' = RecognizeHum(DATABASE, PitchTrack(notes))
    /\ UNCHANGED <<songs_read, database, melody_file, hum_pc, DATABASE>>
    /\ UNCHANGED <<segvars, matchvars, envvars, appvars>>

-----------------------------------------------------------------------------
(* The Streamlit matcher, src/main.py: the same melody_database.json,      *)
(* searched by sliding a window of each song past the hum.  A hum is held  *)
(* as its voiced frames, every frame of the audio being voiced.            *)

HOP_LENGTH == 512

MIN_AUDIO_SAMPLES == 1000

MIN_VOICED_FRAMES == 10

IQR_MIN_LEN == 5

MIN_QUERY_LEN == 5

MIN_WINDOW == 5

\* a hum of four frames: enough samples, too few voiced frames
ShortHum == <<60, 60, 60, 60>>

HumTracks == {PitchTrack(notes) : notes \in HumNotes \cup {LongHum}} \cup {ShortHum}

\* the k-th smallest value of a sequence, k from 1
OrderStat(seq, k) ==
    CHOOSE v \in Range(seq) :
        /\ Cardinality({j \in DOMAIN seq : seq[j] < v}) < k
        /\ k <= Cardinality({j \in DOMAIN seq : seq[j] <= v})

\* 4 * np.percentile(a, 25 * quarter): linear interpolation between the two
\* order statistics around the position quarter * (n - 1) / 4
Percentile4(seq, quarter) ==
    LET pos == quarter * (Len(seq) - 1)
        lo == OrderStat(seq, (pos \div 4) + 1)
        hi == OrderStat(seq, Min((pos \div 4) + 2, Len(seq)))
    IN 4 * lo + (pos % 4) * (hi - lo)

\* the mask q1 - 1.5 * iqr <= v <= q3 + 1.5 * iqr, applied when len > 5
TrimOutliers(midi_normalized) ==
    IF Len(midi_normalized) > IQR_MIN_LEN
    THEN LET q1 == Percentile4(midi_normalized, 1)
             q3 == Percentile4(midi_normalized, 3)
             iqr == q3 - q1
             InMask(v) == 8 * v >= 2 * q1 - 3 * iqr /\ 8 * v <= 2 * q3 + 3 * iqr
         IN SelectSeq(midi_normalized, InMask)
    ELSE midi_normalized

\* main.extract_hum_pitch on the voiced frames: <<>> is None
extract_hum_pitch(pitch_track) ==
    IF Len(pitch_track) < MIN_VOICED_FRAMES THEN <<>>
    ELSE <<TrimOutliers(ZeroCenter(pitch_track))>>

\* float('inf') as a score
InfScore == [dist |-> Inf, steps |-> 1]

\* "for start in range(0, len(ref_seq) - min_window + 1, step)": best is
\* [kind, score, segment]
\* normalized_dist = distance / len(query_seq); "if normalized_dist < min_dist"
KeepBetter(best, segment, d, query_len) ==
    IF d.kind # "ok" THEN [best EXCEPT !.kind = d.kind]
    ELSE IF ScoreLT([dist |-> d.distance, steps |-> query_len], best.score)
         THEN [kind |-> "ok", score |-> [dist |-> d.distance, steps |-> query_len],
               segment |-> segment, compared |-> best.compared]
         ELSE best

\* the body of the window loop: "if len(segment) < min_window * 0.7: continue";
\* best.compared records the window that goes on to fastdtw
ScanWindow(query_seq, segment, start, min_window, best) ==
    IF 10 * Len(segment) < 7 * min_window THEN best
    ELSE KeepBetter([best EXCEPT !.compared = Append(@, <<start, Len(segment)>>)],
                    segment,
                    fastdtw(Column(query_seq), Column(segment), HUM_RADIUS),
                    Len(query_seq))

RECURSIVE ScanWindows(_, _, _, _, _, _)
ScanWindows(query_seq, ref_seq, start, min_window, step, best) ==
    IF start > Len(ref_seq) - min_window \/ best.kind # "ok" THEN best
    ELSE ScanWindows(query_seq, ref_seq, start + step, min_window, step,
                     ScanWindow(query_seq,
                                SubSeq(ref_seq, start + 1,
                                       Min(start + min_window, Len(ref_seq))),
                                start, min_window, best))

\* the replace chain and strip("_- ") of a file name
CleanSongName(song_name) ==
    IF song_name[2] \in {"vocals.wav", "Vocals.wav", ".wav", ".mp3"}
    THEN <<song_name[1], "">>
    ELSE song_name

\* the body of "for song_name, song_data in st.session_state.database.items()"
\* results.append({"name": clean_name, "score": min_dist, "segment": best_segment})
SegmentResult(song_name, best) ==
    [kind |-> best.kind,
     result |-> [name |-> CleanSongName(song_name), score |-> best.score,
                 segment |-> best.segment],
     compared |-> best.compared]

\* the window length had the code rounded to the nearest integer
MinWindowRounded(query_len) == Max(MIN_WINDOW, (8 * query_len + 5) \div 10)

\* min_window = max(5, int(query_len * 0.8))
MinWindow(query_len) == Max(MIN_WINDOW, (4 * query_len) \div 5)

\* step = max(1, min_window // 4)
Step(min_window) == Max(1, min_window \div 4)

BestSegment(query_seq, item) ==
    SegmentResult(item.name,
                  ScanWindows(query_seq, item.data, 0, MinWindow(Len(query_seq)),
                              Step(MinWindow(Len(query_seq))),
                              [kind |-> "ok", score |-> InfScore, segment |-> <<>>,
                               compared |-> <<>>]))

\* get_top_matches_subsequence(hum_path, top_n): [raised, query_seq, matches],
\* and the windows compared, per song
\* raise ValueError(message)
Raised(message) ==
    [raised |-> message, query_seq |-> <<>>, matches |-> <<>>, compared |-> <<>>]

\* results.sort(...); return hum_pitch_ds, results[:top_n]
TopSegments(query_seq, scored, top_n) ==
    IF \E k \in DOMAIN scored : scored[k].kind # "ok" THEN Raised("IndexError")
    ELSE [raised |-> "", query_seq |-> query_seq,
          matches |-> FirstK(SortResults([k \in DOMAIN scored |-> scored[k].result]),
                             top_n),
          compared |-> [k \in DOMAIN scored |-> scored[k].compared]]

\* from "if len(hum_pitch_ds) < 5" on
MatchQuery(db, query_seq, top_n) ==
    IF Len(query_seq) < MIN_QUERY_LEN
    THEN Raised("Hum too short for reliable matching")
    ELSE TopSegments(query_seq, [k \in DOMAIN db |-> BestSegment(query_seq, db[k])],
                     top_n)

\* from "if hum_pitch is None" on
MatchExtracted(db, extracted, top_n) ==
    IF extracted = <<>>
    THEN Raised("No valid pitch detected (too quiet/noisy/short)")
    ELSE MatchQuery(db, Downsample(extracted[1], STRIDE), top_n)

get_top_matches_subsequence(db, pitch_track, top_n) ==
    IF Len(pitch_track) * HOP_LENGTH < MIN_AUDIO_SAMPLES
    THEN Raised("Audio too short after silence removal")
    ELSE MatchExtracted(db, extract_hum_pitch(pitch_track), top_n)

\* the script's first run: load_database(), then st.error and st.stop() when
\* there is no database or it holds no song
AppStart ==
    /\ deployment = "streamlit"
    /\ app_pc = "down"
    /\ session_database' = IF melody_file.exists THEN <<melody_file.content>> ELSE <<>>
    /\ app_pc' = IF melody_file.exists /\ melody_file.content # <<>>
                 THEN "ready" ELSE "stopped"
    /\ UNCHANGED <<session_results, app_error, app_hum, app_windows>>
    /\ UNCHANGED <<segvars, matchvars, envvars, humvars>>

\* "Recognize": process_audio_bytes(...), the results kept in the session, or
\* st.error with the exception's message; the first recognition of a session
process_audio_bytes ==
    /\ deployment = "streamlit"
    /\ app_pc = "ready" /\ session_results = <<>> /\ app_error = ""
    /\ \E pitch_track \in HumTracks :
          \E top \in {get_top_matches_subsequence(session_database[1], pitch_track,
                                                  TOP_N)} :
             /\ app_hum' = pitch_track
             /\ app_windows' = top.compared
             /\ IF top.raised # ""
                THEN app_error' = top.raised /\ UNCHANGED session_results
                ELSE /\ app_error' = ""
                     /\ session_results' =
                           <<[query_seq |-> top.query_seq, results |-> top.matches]>>
    /\ UNCHANGED <<app_pc, session_database>>
    /\ UNCHANGED <<segvars, matchvars, envvars, humvars>>

MatchInit ==
    /\ SegIdle
    /\ MatchIdle
    /\ deployment \in {"football", "melody", "streamlit"}
    /\ fastdtw_build \in {"python", "compiled"}
    /\ HumIdle
    /\ AppIdle

MatchNext ==
    \/ MainFile \/ MainSave \/ load_database \/ analyze_match
    \/ ProcessSong \/ SaveMelodies \/ LoadMelodies \/ recognize_hum
    \/ AppStart \/ process_audio_bytes

SpecMatch == MatchInit /\ [][MatchNext]_vars

-----------------------------------------------------------------------------
(* The Streamlit matcher started on a melody_database.json it is given:    *)
(* load_database() takes whatever JSON object the file holds, a song name  *)
(* mapped to a list of numbers, the empty list included.                   *)

MaxIndexSongs == 2

IndexNotes == SongNotes \cup {LongSong}

\* the list of a song: what processor.py stores for its notes, [] for none
IndexData(notes) ==
    IF notes = <<>> THEN <<>>
    ELSE Downsample(ZeroCenter(PitchTrack(notes)), STRIDE)

IndexFiles ==
    UNION {{[k \in 1..n |-> [name |-> SongFile(k), data |-> IndexData(f[k])]] :
               f \in [1..n -> IndexNotes]} : n \in 0..MaxIndexSongs}

IndexInit ==
    /\ SegIdle
    /\ MatchIdle
    /\ deployment = "streamlit"
    /\ fastdtw_build \in {"python", "compiled"}
    /\ songs_read = 0
    /\ database = <<>>
    /\ melody_file \in {[exists |-> TRUE, content |-> c] : c \in IndexFiles}
    /\ hum_pc = "down"
    /\ DATABASE = <<>>
    /\ hum_response = NoResponse
    /\ AppIdle

IndexNext == AppStart \/ process_audio_bytes

SpecIndex == IndexInit /\ [][IndexNext]_vars

-----------------------------------------------------------------------------
(* Vocabulary of the search claims *)

Answered == response.status = "success"

HumAnswered == hum_response.status = "success"

\* the candidates a result of analyze_match was ranked among
Eligible(r) == Candidates(PLAY_DATABASE, Len(r.input_trajectory))

DistanceTo(r, cand) ==
    fastdtw(Rebase(r.input_trajectory, response.match_mode),
            Rebase(cand.trajectory, response.match_mode), RADIUS_DEFAULT).distance

\* the place of a match among the candidates, in insertion order
PlaceOf(r, m) == CHOOSE k \in DOMAIN Eligible(r) : Eligible(r)[k].play_id = m.match_play_id

RankedPlays(r) ==
    LET ms == r.matches
        place == [a \in DOMAIN ms |-> PlaceOf(r, ms[a])]
    IN /\ Len(ms) = Min(TOP_K, Len(Eligible(r)))
       /\ \A a \in DOMAIN ms :
             /\ \E k \in DOMAIN Eligible(r) : Eligible(r)[k].play_id = ms[a].match_play_id
             /\ ms[a].similarity_score = DistanceTo(r, Eligible(r)[place[a]])
       /\ \A a, b \in DOMAIN ms :
             a < b => \/ ms[a].similarity_score < ms[b].similarity_score
                      \/ /\ ms[a].similarity_score = ms[b].similarity_score
                         /\ place[a] < place[b]
       /\ \A k \in DOMAIN Eligible(r) : \A a \in DOMAIN ms :
             k \notin Range(place) =>
                \/ ms[a].similarity_score < DistanceTo(r, Eligible(r)[k])
                \/ /\ ms[a].similarity_score = DistanceTo(r, Eligible(r)[k])
                   /\ place[a] < k

HumQuery == Column(Downsample(ZeroCenter(hum_response.pitch_track), STRIDE))

HumScore(k) == ScoreSong(HumQuery, DATABASE[k]).result.score

HumPlaceOf(m) == CHOOSE k \in DOMAIN DATABASE : CleanName(DATABASE[k].name) = m.name

RankedSongs ==
    LET ms == hum_response.matches
        place == [a \in DOMAIN ms |-> HumPlaceOf(ms[a])]
    IN /\ Len(ms) = Min(TOP_N, Len(DATABASE))
       /\ \A a \in DOMAIN ms :
             /\ \E k \in DOMAIN DATABASE : CleanName(DATABASE[k].name) = ms[a].name
             /\ ms[a].score = HumScore(place[a])
       /\ \A a, b \in DOMAIN ms :
             a < b => \/ ScoreLT(ms[a].score, ms[b].score)
                      \/ /\ ScoreLE(ms[a].score, ms[b].score)
                         /\ place[a] < place[b]
       /\ \A k \in DOMAIN DATABASE : \A a \in DOMAIN ms :
             k \notin Range(place) =>
                \/ ScoreLT(ms[a].score, HumScore(k))
                \/ /\ ScoreLE(ms[a].score, HumScore(k))
                   /\ place[a] < k

AppAnswered == session_results # <<>>

AppDatabase == session_database[1]

AppScore(k) == BestSegment(session_results[1].query_seq, AppDatabase[k]).result.score

AppPlaceOf(m) == CHOOSE k \in DOMAIN AppDatabase : CleanSongName(AppDatabase[k].name) = m.name

RankedSegments ==
    LET ms == session_results[1].results
        place == [a \in DOMAIN ms |-> AppPlaceOf(ms[a])]
    IN /\ Len(ms) = Min(TOP_N, Len(AppDatabase))
       /\ \A a \in DOMAIN ms :
             /\ \E k \in DOMAIN AppDatabase : CleanSongName(AppDatabase[k].name) = ms[a].name
             /\ ms[a].score = AppScore(place[a])
       /\ \A a, b \in DOMAIN ms :
             a < b => \/ ScoreLT(ms[a].score, ms[b].score)
                      \/ /\ ScoreLE(ms[a].score, ms[b].score)
                         /\ place[a] < place[b]
       /\ \A k \in DOMAIN AppDatabase : \A a \in DOMAIN ms :
             k \notin Range(place) =>
                \/ ScoreLT(ms[a].score, AppScore(k))
                \/ /\ ScoreLE(ms[a].score, AppScore(k))
                   /\ place[a] < k

(* C8: a query returns its matches in ascending order of distance,         *)
(* candidates of equal distance in their insertion order, and as many      *)
(* matches as min(top_k, number of eligible candidates): the nearest ones. *)
C8_RankedTopK ==
    /\ Answered =>
          \A n \in DOMAIN response.analysis_results :
              RankedPlays(response.analysis_results[n])
    /\ HumAnswered => RankedSongs
    /\ AppAnswered => RankedSegments

\* a query with more than top_k candidates, two of the matches at the same
\* distance and two at different distances
C8_Witness ==
    /\ Answered
    /\ \E n \in DOMAIN response.analysis_results :
          LET r == response.analysis_results[n]
          IN /\ Len(Eligible(r)) > TOP_K
             /\ \E a, b \in DOMAIN r.matches :
                   a < b /\ r.matches[a].similarity_score = r.matches[b].similarity_score
             /\ \E a, b \in DOMAIN r.matches :
                   r.matches[a].similarity_score < r.matches[b].similarity_score

(* C9: over the length-bucketed index that the corpus builder makes, every *)
(* candidate of a query in full mode, and so every match returned, has     *)
(* exactly as many points as the query.                                    *)
C9_SameLengthOnly ==
    /\ \A key \in DOMAIN PLAY_DATABASE : \A k \in DOMAIN PLAY_DATABASE[key] :
          /\ PLAY_DATABASE[key][k].length = key
          /\ Len(PLAY_DATABASE[key][k].trajectory) = key
    /\ Answered =>
          \A n \in DOMAIN response.analysis_results :
              LET r == response.analysis_results[n]
              IN \A a \in DOMAIN r.matches :
                    /\ Len(r.matches[a].match_trajectory) = Len(r.input_trajectory)
                    /\ Len(r.input_trajectory) = r.length

\* matches were returned from an index that also holds plays of another length
C9_Witness ==
    /\ Answered
    /\ \E n \in DOMAIN response.analysis_results :
          LET r == response.analysis_results[n]
          IN /\ r.matches # <<>>
             /\ \E key \in DOMAIN PLAY_DATABASE : key # r.length

\* a query that is itself valid: a hum with a pitch
ValidHum == hum_response.status # "none" /\ hum_response.pitch_track # <<>>

(* C10: a query against an empty or unbuilt index, or against an index     *)
(* without an eligible candidate for it, returns an empty match list and   *)
(* a non-error outcome.                                                    *)
C10_EmptyIndexNoError ==
    /\ Answered =>
          \A n \in DOMAIN response.analysis_results :
              Eligible(response.analysis_results[n]) = <<>>
                  => response.analysis_results[n].matches = <<>>
    /\ (ValidHum /\ DATABASE = <<>>) =>
          (hum_response.status = "success" /\ hum_response.matches = <<>>)

(* C10, amended: a query against an empty or unbuilt index, or one without *)
(* an eligible candidate, returns no match; analyze_match reports it as a  *)
(* success with an empty match list, recognize_hum as the error            *)
(* "Database is empty.".                                                   *)
C10_EmptyIndex ==
    /\ (response.status # "none" /\ PLAY_DATABASE = EmptyMap) =>
          response.status \in {"success", "error"}
    /\ response.status = "error" =>
          response.message = "No valid plays found in uploaded file."
    /\ Answered =>
          \A n \in DOMAIN response.analysis_results :
              Eligible(response.analysis_results[n]) = <<>>
                  => response.analysis_results[n].matches = <<>>
    /\ (ValidHum /\ DATABASE = <<>>) =>
          (hum_response.status = "error" /\ hum_response.message = "Database is empty.")

\* a hum with a pitch was matched by a server whose database is empty
C10_Witness ==
    /\ ValidHum
    /\ DATABASE = <<>>
    /\ hum_response.status = "error"

\* the points of a hum as server.get_top_matches compares them; <<>> without pitch
ServerQuery(pitch_track) ==
    IF extract_pitch(pitch_track) = <<>> THEN <<>>
    ELSE Downsample(extract_pitch(pitch_track)[1], STRIDE)

\* the points of a hum as get_top_matches_subsequence compares them
AppQuery(pitch_track) ==
    IF extract_hum_pitch(pitch_track) = <<>> THEN <<>>
    ELSE Downsample(extract_hum_pitch(pitch_track)[1], STRIDE)

\* the Streamlit matcher has been through a recognition
AppRecognized == app_error # "" \/ AppAnswered

(* C12: a query that has fewer than 5 points after normalization, trimming *)
(* and stride-10 downsampling is rejected as a whole with an explicit      *)
(* failure: no match is returned for it.                                   *)
C12_ShortQueryRejected ==
    /\ (hum_response.status # "none"
           /\ Len(ServerQuery(hum_response.pitch_track)) < MIN_QUERY_LEN)
          => hum_response.status = "error"
    /\ (AppRecognized /\ Len(AppQuery(app_hum)) < MIN_QUERY_LEN)
          => (app_error # "" /\ session_results = <<>>)

(* C14: the DTW distance between a non-empty sequence and itself is 0,     *)
(* under the approximate variant with the radii the matchers use (1 for    *)
(* trajectories, 15 for pitch) and under exact DTW: a match that is the    *)
(* query itself has distance 0.                                            *)
C14_SelfDistanceZero ==
    /\ Answered =>
          \A n \in DOMAIN response.analysis_results :
              LET r == response.analysis_results[n]
              IN \A a \in DOMAIN r.matches :
                    r.matches[a].match_trajectory = r.input_trajectory
                        => r.matches[a].similarity_score = 0
    /\ HumAnswered =>
          \A a \in DOMAIN hum_response.matches :
              DATABASE[HumPlaceOf(hum_response.matches[a])].data
                    = ServerQuery(hum_response.pitch_track)
                  => hum_response.matches[a].score.dist = 0
    /\ AppAnswered =>
          \A a \in DOMAIN session_results[1].results :
              session_results[1].results[a].segment = session_results[1].query_seq
                  => session_results[1].results[a].score.dist = 0
    /\ \A key \in DOMAIN PLAY_DATABASE : \A k \in DOMAIN PLAY_DATABASE[key] :
          ExactDtw(PLAY_DATABASE[key][k].trajectory,
                   PLAY_DATABASE[key][k].trajectory).distance = 0

\* the windows of a reference of ref_len points that lie wholly inside it,
\* for a window length and a step
WindowCount(ref_len, window, step) ==
    IF ref_len < window THEN 0 ELSE ((ref_len - window) \div step) + 1

\* round(0.8 * q); 0.8 * q is never halfway between two integers
RoundedWindow(q) == Max(MIN_WINDOW, (8 * q + 5) \div 10)

\* the integer part of 0.8 * q
TruncatedWindow(q) == Max(MIN_WINDOW, (4 * q) \div 5)

\* the number of points of the query of the last recognition
AppQueryLen == Len(session_results[1].query_seq)

(* C11: in subsequence search every window compared against a query of q   *)
(* points has length W = max(MIN_WINDOW, round(0.8 * q)), the windows      *)
(* start at 0, s, 2s, ... with s = max(1, W / 4) rounded down, and no      *)
(* window shorter than 70% of W is compared.                               *)
C11_RoundedWindows ==
    AppAnswered =>
        \A k \in DOMAIN app_windows : \A n \in DOMAIN app_windows[k] :
            LET W == RoundedWindow(AppQueryLen)
            IN /\ app_windows[k][n][2] = W
               /\ app_windows[k][n][1] = (n - 1) * Max(1, W \div 4)
               /\ 10 * app_windows[k][n][2] >= 7 * W

(* C11, amended: every window compared against a query of q points has     *)
(* length W = max(MIN_WINDOW, floor(0.8 * q)); the windows compared are    *)
(* the ones that start at 0, s, 2s, ... with s = max(1, floor(W / 4)) and  *)
(* lie wholly inside the reference, so that no shorter tail window exists  *)
(* and a reference of fewer than W points is compared with nothing.        *)
C11_TruncatedWindows ==
    AppAnswered =>
        /\ DOMAIN app_windows = DOMAIN AppDatabase
        /\ \A k \in DOMAIN app_windows :
              LET W == TruncatedWindow(AppQueryLen)
                  s == Max(1, W \div 4)
              IN /\ Len(app_windows[k]) = WindowCount(Len(AppDatabase[k].data), W, s)
                 /\ \A n \in DOMAIN app_windows[k] :
                       /\ app_windows[k][n][2] = W
                       /\ app_windows[k][n][1] = (n - 1) * s
                       /\ 10 * app_windows[k][n][2] >= 7 * W

\* a query for which rounding and truncation differ was compared with three
\* or more windows of a song, two or more points apart
C11_Witness ==
    /\ AppAnswered
    /\ RoundedWindow(AppQueryLen) # TruncatedWindow(AppQueryLen)
    /\ \E k \in DOMAIN app_windows :
          /\ Len(app_windows[k]) >= 3
          /\ app_windows[k][2][1] >= 2
          /\ app_windows[k][1][2] > MIN_WINDOW

(* C13: comparing a query with a candidate when either of them has zero    *)
(* points fails with an explicit failure: the recognition returns no       *)
(* distance for the candidate and does not fail through an empty-array     *)
(* access.                                                                 *)
C13_EmptySequence ==
    (/\ AppRecognized
     /\ \/ AppQuery(app_hum) = <<>>
        \/ \E k \in DOMAIN AppDatabase : AppDatabase[k].data = <<>>)
        => /\ session_results = <<>>
           /\ app_error \notin {"", "IndexError"}

====
